---- MODULE Spec2Model ----
(***************************************************************************)
(* Model of the moduleQC scripts: compareIV.py, getall_modules.py,         *)
(* fnal_IVcompare.py, readFNALDb.py, fetchCMUdata.py, uploadFNAL_IVdata.py *)
(* and createLocalDb.py.  Each script is a single asyncio task; a state of *)
(* the model is a point of one script run together with the state of the   *)
(* database servers and of the files the run talks to.                     *)
(***************************************************************************)
EXTENDS Integers, Sequences, FiniteSets, TLC

VARIABLES
    script,        \* which script is run
    pc,            \* the statement the run is at
    args,          \* the parsed command line
    remote,        \* the MAC database: table name -> rows in insertion order
    module_list,   \* fetch_testing_data's module_list argument
    query,         \* the query text last handed to conn.fetch
    params,        \* the query parameters last handed to conn.fetch
    rows,          \* the rows the last fetch returned
    conns,         \* the database connections that are open
    nconn,         \* number of connections opened so far
    cur,           \* the connection of the function call in progress (0: none)
    exited,        \* connections whose opening call has returned or raised
    exc,           \* the exception in flight or uncaught ("none": none)
    trace,         \* the I/O events of the run, in order
    databases,     \* the databases of the local PostgreSQL server
    table,         \* module_tests in hgcdb_fnal: whether it exists, column -> type
    inserted,      \* the rows of module_tests, in insertion order
    existing_columns, \* verify_and_update_table_schema: column -> reported type
    col,           \* verify_and_update_table_schema: position in expected_columns
    stmts,         \* verify_and_update_table_schema: the statements executed
    i,             \* plot_iv_data: the rows examined so far
    curves,        \* plot_iv_data: the curves drawn, in order
    skipped,       \* plot_iv_data: the rows skipped with a message, in order
    users,         \* createLocalDb: table users of test_db: exists, emails of its rows
    fi,            \* uploadFNAL_IVdata main: files of the listing dealt with
    env,           \* uploadFNAL_IVdata main: temperature, relative_humidity, addComments
    prompted,      \* uploadFNAL_IVdata: the files the user was prompted for, in order
    data,          \* upload_to_local_db: the rows to insert
    di             \* upload_to_local_db: rows of data dealt with

inputVars == <<script, args, remote>>
fetchVars == <<module_list, query, params, rows>>
connVars == <<conns, nconn, cur, exited>>
localVars == <<databases, table, inserted, users>>
schemaVars == <<existing_columns, col, stmts>>
plotVars == <<i, curves, skipped>>
uploadVars == <<fi, env, prompted, data, di>>
\* what a script that only reads the MAC database never touches
localState == <<localVars, schemaVars, uploadVars>>

vars == <<script, pc, args, remote, module_list, query, params, rows,
          conns, nconn, cur, exited, exc, trace, databases, table, inserted,
          existing_columns, col, stmts, i, curves, skipped, users,
          fi, env, prompted, data, di>>

----------------------------------------------------------------------------
(* Bounds of the model *)

\* at most this many names follow -mn on the command line
MaxNames == 2
\* at most this many rows in a table of the MAC database
MaxRemote == 2
\* at most this many columns of an existing module_tests are missing or of
\* another type than expected
MaxDeviations == 2
\* at most this many rows are handed to plot_iv_data
MaxPlotRows == 2
\* at most this many values in a meas_v or meas_i array
MaxArrayLen == 2
\* at most this many rows in module_tests when readFNALDb starts
MaxLocalRows == 2
\* at most this many files in the directory given to uploadFNAL_IVdata
MaxFiles == 2
\* at most this many rows handed to upload_to_local_db
MaxUploadRows == 2
\* createLocalDb is run at most this many times against the same server
MaxRuns == 2
\* at most this many rows, all with matching arrays, handed to plot_iv_data
MaxColourRows == 21

----------------------------------------------------------------------------
(* Values *)

\* module names as typed on the command line
RawNames == {"all", "ALL", "m1", "M2"}
\* module names of the rows of the MAC database
Modules == {"M1", "M2"}

SeqsUpTo(S, n) == UNION {[1..k -> S] : k \in 0..n}

\* the subsets of S of at most k elements
SubsetsUpTo(S, k) ==
    LET grow[n \in 0..k] ==
            IF n = 0 THEN {{}}
            ELSE grow[n - 1] \cup {p \cup {x} : p \in grow[n - 1], x \in S}
    IN grow[k]

\* str.upper() on the names of the model
upper(s) ==
    CASE s = "all" -> "ALL"
      [] s = "m1" -> "M1"
      [] s = "m2" -> "M2"
      [] s = "m-1" -> "M-1"
      [] s = "ucsb" -> "UCSB"
      [] OTHER -> s

\* the order of str comparison on the module names of the model
NameRank(s) ==
    CASE s = "ALL" -> 0
      [] s = "M-1" -> 1
      [] s = "M1" -> 2
      [] s = "M2" -> 3
      [] OTHER -> 4

Event(e, f) == [ev |-> e, fn |-> f]

NoUsers == [exists |-> FALSE, emails |-> <<>>]

NoQuery == [select |-> "", from |-> "", where |-> FALSE, in_list |-> <<>>,
            order_by |-> ""]

----------------------------------------------------------------------------
(* Connections and control *)

\* conn = await asyncpg.connect(...) succeeds
Connected ==
    /\ nconn' = nconn + 1
    /\ conns' = conns \cup {nconn + 1}
    /\ cur' = nconn + 1
    /\ exited' = exited

\* await conn.close(), the call going on
Closed ==
    /\ conns' = conns \ {cur}
    /\ UNCHANGED <<nconn, cur, exited>>

\* await conn.close() as the last statement of the function, which returns
ClosedAndReturned ==
    /\ conns' = conns \ {cur}
    /\ exited' = exited \cup ({cur} \ {0})
    /\ cur' = 0
    /\ nconn' = nconn

\* the function call in progress returns or raises, its connection left as it is
Returned ==
    /\ exited' = exited \cup ({cur} \ {0})
    /\ cur' = 0
    /\ UNCHANGED <<conns, nconn>>

\* the run goes on at statement p, having performed the events es
Goto(p, es) ==
    /\ pc' = p
    /\ trace' = trace \o es
    /\ exc' = exc

\* an exception of kind k is caught and printed by a handler around main()
caught_at_top_level(k, es) ==
    /\ pc' = "done"
    /\ trace' = trace \o es \o <<Event("print_error", "main")>>
    /\ exc' = exc

\* an exception of kind k leaves main() and asyncio.run(): the run ends with a traceback
Uncaught(k, es) ==
    /\ pc' = "crashed"
    /\ trace' = trace \o es
    /\ exc' = k

----------------------------------------------------------------------------
(* The MAC database (hgcdb at CMU or UCSB), read by user 'viewer' *)

Tables == {"module_iv_test", "module_pedestal_test", "module_qc_summary"}

\* the rows of table t: row k was the k-th inserted and carries test number k
TableRows(t) ==
    [k \in 1..Len(remote[t]) |-> [module_name |-> remote[t][k], no |-> k]]

\* ORDER BY module_name, <test number>: a stable sort of rows that are in
\* test-number order
RECURSIVE order_by_module_name(_)
order_by_module_name(s) ==
    IF s = <<>> THEN <<>>
    ELSE LET h == Head(s)
             rest == order_by_module_name(Tail(s))
             lower(r) == NameRank(r.module_name) < NameRank(h.module_name)
             notLower(r) == ~lower(r)
         IN SelectSeq(rest, lower) \o <<h>> \o SelectSeq(rest, notLower)

SetMax(S) == CHOOSE x \in S : \A y \in S : y <= x

\* whether the server accepts query q with parameters p: the columns come FROM
\* a table, every placeholder $n has n >= 1, and p holds as many values as the
\* highest placeholder asks for
QueryOK(q, p) ==
    LET used == {q.in_list[j] : j \in 1..Len(q.in_list)}
    IN /\ q.from # ""
       /\ \A n \in used : n >= 1
       /\ Len(p) = SetMax(used \cup {0})

\* the rows the server returns for query q with parameters p
Select(q, p) ==
    LET named == {p[q.in_list[j]] : j \in 1..Len(q.in_list)}
        keep(r) == ~q.where \/ r.module_name \in named
        hit == SelectSeq(TableRows(q.from), keep)
    IN IF q.order_by = "module_name, no" THEN order_by_module_name(hit) ELSE hit

----------------------------------------------------------------------------
(* compareIV.py, getall_modules.py, fnal_IVcompare.py *)

CompareScripts == {"compareIV", "getall_modules", "fnal_IVcompare"}

\* the placeholders $1, ..., $n of the IN list, n = len(module_list);
\* the number k stands for the text '$k'
placeholders_off_by_one(ml) ==
    IF ml # <<>> /\ ml[1] # "ALL"
    THEN [k \in 1..Len(ml) |-> k - 1] ELSE <<>>

placeholders(ml) ==
    IF ml # <<>> /\ ml[1] # "ALL"
    THEN [k \in 1..Len(ml) |-> (k - 1) + 1] ELSE <<>>

\* module_filter: where = FALSE is the empty string
module_filter(ml) ==
    IF ml # <<>> /\ ml[1] # "ALL"
    THEN [where |-> TRUE, in_list |-> placeholders(ml)]
    ELSE [where |-> FALSE, in_list |-> <<>>]

DataTypes == {"mod_iv", "mod_ped", "mod_qcs"}

\* the three query texts of a script, by data type
query_type_dict(sc, ml) ==
    LET f == module_filter(ml)
    IN [dt \in DataTypes |->
        CASE dt = "mod_iv" ->
               [select |-> CASE sc = "compareIV" -> "module_name, meas_v, meas_i, mod_ivtest_no"
                             [] sc = "fnal_IVcompare" -> "rel_hum, temp_c, module_name, date_test, time_test, meas_v, meas_i, mod_ivtest_no"
                             [] OTHER -> "*",
                from |-> "module_iv_test", where |-> f.where, in_list |-> f.in_list,
                order_by |-> IF sc = "getall_modules" THEN "no" ELSE "module_name, no"]
          [] dt = "mod_ped" ->
               [select |-> "*", from |-> "module_pedestal_test", where |-> f.where,
                in_list |-> f.in_list, order_by |-> "no"]
          [] OTHER ->
               [select |-> "*", from |-> "module_qc_summary", where |-> f.where,
                in_list |-> f.in_list, order_by |-> "no"]]

\* the parameters that follow the query in conn.fetch
fetch_params_always(ml) == ml

fetch_params(ml) == IF ml # <<>> /\ ml[1] = "ALL" THEN <<>> ELSE ml

\* main: module_names = ['ALL'] if not args.module_names else [mn.upper() ...]
main_module_names(names) ==
    IF names = <<>> THEN <<"ALL">> ELSE [k \in 1..Len(names) |-> upper(names[k])]

\* main, from the argument parser to the call of a fetch function
main_compare ==
    /\ script \in CompareScripts
    /\ pc = "main"
    /\ UNCHANGED <<inputVars, plotVars, localState, connVars, query, params, rows>>
    /\ IF args.list_modules
       THEN /\ module_list' = module_list
            /\ IF args.mac # "CMU"
               THEN Goto("done", <<Event("print_info", "main")>>)
               ELSE Goto("names_connect", <<Event("print_info", "main")>>)
       ELSE IF args.data_type = "None"
       THEN /\ module_list' = module_list
            /\ Goto("done", <<Event("print_error", "main")>>)
       ELSE /\ module_list' = main_module_names(args.module_names)
            /\ Goto("ftd_connect", <<Event("print_info", "main")>>)

\* fetch_testing_data: conn = await asyncpg.connect(...)
fetch_testing_data_connect ==
    /\ script \in CompareScripts
    /\ pc = "ftd_connect"
    /\ UNCHANGED <<inputVars, plotVars, localState, fetchVars>>
    /\ \/ /\ Connected
          /\ Goto("ftd_fetch", <<Event("connect", "fetch_testing_data")>>)
       \/ /\ UNCHANGED connVars
          /\ Uncaught("ConnectionError", <<>>)

\* fetch_testing_data: the query is built and rows = await conn.fetch(...)
fetch_testing_data_fetch ==
    /\ script \in CompareScripts
    /\ pc = "ftd_fetch"
    /\ UNCHANGED <<inputVars, plotVars, localState, module_list>>
    /\ IF args.data_type \notin DataTypes
       THEN \* query_type_dict[data_type] raises KeyError
            /\ UNCHANGED <<query, params, rows>>
            /\ Returned
            /\ Uncaught("KeyError", <<>>)
       ELSE LET q == query_type_dict(script, module_list)[args.data_type]
                p == fetch_params(module_list)
            IN /\ query' = q
               /\ params' = p
               /\ \/ /\ QueryOK(q, p)
                     /\ rows' = Select(q, p)
                     /\ UNCHANGED connVars
                     /\ Goto("ftd_close", <<Event("query", "fetch_testing_data")>>)
                  \/ \* the server or the driver rejects the query
                     /\ rows' = rows
                     /\ Returned
                     /\ Uncaught("PostgresError", <<Event("query_failed", "fetch_testing_data")>>)

\* fetch_testing_data: await conn.close(); return rows
fetch_testing_data_close ==
    /\ script \in CompareScripts
    /\ pc = "ftd_close"
    /\ UNCHANGED <<inputVars, plotVars, localState, fetchVars>>
    /\ ClosedAndReturned
    /\ Goto("main_output", <<Event("close", "fetch_testing_data")>>)

\* main, after fetch_testing_data returned: plot, print or save the rows
main_compare_output ==
    /\ script \in CompareScripts
    /\ pc = "main_output"
    /\ UNCHANGED <<inputVars, plotVars, localState, fetchVars, connVars>>
    /\ IF rows = <<>>
       THEN Goto("done", <<Event("print_info", "main")>>)
       ELSE CASE script = "getall_modules" ->
                   Goto("done", <<Event("save_rows", "main"), Event("print_info", "main")>>)
              [] script = "compareIV" ->
                   IF args.plot /\ args.data_type = "mod_iv"
                   THEN Goto("done", <<Event("plot_rows", "plot_iv_data")>>)
                   ELSE Goto("done", <<Event("print_rows", "main")>>)
              [] OTHER ->
                   IF args.plot /\ args.data_type = "mod_iv"
                   THEN \/ Goto("done", <<Event("plot_rows", "plot_iv_data"),
                                          Event("save_rows", "plot_iv_data")>>)
                        \/ \* read_text_file raises on file1 or file2
                           Uncaught("FileError", <<Event("plot_rows", "plot_iv_data"),
                                                   Event("read_failed", "read_text_file")>>)
                   ELSE Goto("done", <<Event("print_rows", "main")>>)

\* fetch_all_module_names: conn = await asyncpg.connect(...)
fetch_all_module_names_connect ==
    /\ script \in CompareScripts
    /\ pc = "names_connect"
    /\ UNCHANGED <<inputVars, plotVars, localState, fetchVars>>
    /\ \/ /\ Connected
          /\ Goto("names_fetch", <<Event("connect", "fetch_all_module_names")>>)
       \/ /\ UNCHANGED connVars
          /\ Uncaught("ConnectionError", <<>>)

\* the names of set S in str order, one row each
RECURSIVE names_in_order(_)
names_in_order(S) ==
    IF S = {} THEN <<>>
    ELSE LET m == CHOOSE x \in S : \A o \in S : NameRank(x) <= NameRank(o)
         IN <<[module_name |-> m, no |-> 0]>> \o names_in_order(S \ {m})

\* the distinct module names of the three tables, ORDER BY module_name
all_module_names ==
    names_in_order(UNION {{remote[t][k] : k \in 1..Len(remote[t])} : t \in Tables})

\* fetch_all_module_names: rows = await conn.fetch(query)
fetch_all_module_names_fetch ==
    /\ script \in CompareScripts
    /\ pc = "names_fetch"
    /\ UNCHANGED <<inputVars, plotVars, localState, module_list>>
    /\ query' = [select |-> "DISTINCT module_name", from |-> "UNION",
                 where |-> FALSE, in_list |-> <<>>, order_by |-> "module_name"]
    /\ params' = <<>>
    /\ \/ /\ rows' = all_module_names
          /\ UNCHANGED connVars
          /\ Goto("names_close", <<Event("query", "fetch_all_module_names")>>)
       \/ /\ rows' = rows
          /\ Returned
          /\ Uncaught("PostgresError", <<Event("query_failed", "fetch_all_module_names")>>)

\* fetch_all_module_names: await conn.close(); return; main prints (and
\* getall_modules saves) the names
fetch_all_module_names_close ==
    /\ script \in CompareScripts
    /\ pc = "names_close"
    /\ UNCHANGED <<inputVars, plotVars, localState, fetchVars>>
    /\ ClosedAndReturned
    /\ IF script = "getall_modules"
       THEN Goto("done", <<Event("close", "fetch_all_module_names"),
                           Event("save_rows", "main"), Event("print_rows", "main")>>)
       ELSE Goto("done", <<Event("close", "fetch_all_module_names"),
                           Event("print_rows", "main")>>)

----------------------------------------------------------------------------
(* verify_and_update_table_schema of fetchCMUdata.py and uploadFNAL_IVdata.py *)

UploadScripts == {"fetchCMUdata", "uploadFNAL_IVdata"}

\* expected_columns, in the order of the dict
expected_columns(sc) ==
    IF sc = "fetchCMUdata"
    THEN << <<"module_name", "TEXT">>, <<"test_type", "TEXT">>,
            <<"status", "INTEGER">>, <<"status_desc", "TEXT">>,
            <<"ratio_i_at_vs", "REAL">>, <<"ratio_at_vs", "REAL[]">>,
            <<"rel_hum", "TEXT">>, <<"temp_c", "TEXT">>, <<"date_test", "DATE">>,
            <<"meas_v", "REAL[]">>, <<"meas_i", "REAL[]">>, <<"bias_vol", "REAL">>,
            <<"count_bad_cells", "SMALLINT">>, <<"list_dead_cells", "SMALLINT[]">>,
            <<"list_noisy_cells", "SMALLINT[]">>,
            <<"list_disconnected_cells", "SMALLINT[]">>,
            <<"site_name", "TEXT">>, <<"imported_at", "TIMESTAMP">> >>
    ELSE << <<"module_name", "TEXT">>, <<"test_type", "TEXT">>,
            <<"meas_v", "REAL[]">>, <<"meas_i", "REAL[]">>,
            <<"rel_hum", "TEXT">>, <<"temp_c", "TEXT">>, <<"date_test", "DATE">>,
            <<"test_timestamp", "TIMESTAMP">>, <<"imported_at", "TIMESTAMP">>,
            <<"comments", "TEXT">> >>

\* a CREATE TABLE text that lost its last column
create_table_columns_short(sc) ==
    SubSeq(<< <<"id", "INTEGER">> >> \o expected_columns(sc), 1, Len(expected_columns(sc)))

\* the columns of the CREATE TABLE module_tests text (id SERIAL is an integer column)
create_table_columns(sc) ==
    IF sc = "fetchCMUdata"
    THEN << <<"id", "INTEGER">>,
            <<"module_name", "TEXT">>, <<"test_type", "TEXT">>,
            <<"status", "INTEGER">>, <<"status_desc", "TEXT">>,
            <<"ratio_i_at_vs", "REAL">>, <<"ratio_at_vs", "REAL[]">>,
            <<"rel_hum", "TEXT">>, <<"temp_c", "TEXT">>, <<"date_test", "DATE">>,
            <<"meas_v", "REAL[]">>, <<"meas_i", "REAL[]">>, <<"bias_vol", "REAL">>,
            <<"count_bad_cells", "SMALLINT">>, <<"list_dead_cells", "SMALLINT[]">>,
            <<"list_noisy_cells", "SMALLINT[]">>,
            <<"list_disconnected_cells", "SMALLINT[]">>,
            <<"site_name", "TEXT">>, <<"imported_at", "TIMESTAMP">> >>
    ELSE << <<"id", "INTEGER">>,
            <<"module_name", "TEXT">>, <<"test_type", "TEXT">>,
            <<"meas_v", "REAL[]">>, <<"meas_i", "REAL[]">>,
            <<"rel_hum", "TEXT">>, <<"temp_c", "TEXT">>, <<"date_test", "DATE">>,
            <<"test_timestamp", "TIMESTAMP">>, <<"imported_at", "TIMESTAMP">>,
            <<"comments", "TEXT">> >>

\* column -> type of a column list
ColumnTypes(cs) ==
    [c \in {cs[k][1] : k \in 1..Len(cs)} |->
        cs[CHOOSE k \in 1..Len(cs) : cs[k][1] = c][2]]

NoTable == [exists |-> FALSE, cols |-> <<>>]

\* information_schema.columns.data_type of a column of the given type: the
\* name of a built-in type, ARRAY for every array type
data_type(t) ==
    CASE t = "TEXT" -> "text"
      [] t = "INTEGER" -> "integer"
      [] t = "REAL" -> "real"
      [] t = "SMALLINT" -> "smallint"
      [] t = "DATE" -> "date"
      [] t = "TIMESTAMP" -> "timestamp without time zone"
      [] t = "REAL[]" -> "ARRAY"
      [] t = "SMALLINT[]" -> "ARRAY"
      [] OTHER -> t

\* str.lower() on the type names of the model
lower(t) ==
    CASE t = "TEXT" -> "text"
      [] t = "INTEGER" -> "integer"
      [] t = "REAL" -> "real"
      [] t = "SMALLINT" -> "smallint"
      [] t = "DATE" -> "date"
      [] t = "TIMESTAMP" -> "timestamp"
      [] t = "REAL[]" -> "real[]"
      [] t = "SMALLINT[]" -> "smallint[]"
      [] t = "ARRAY" -> "array"
      [] OTHER -> t

\* the rows of information_schema.columns for module_tests, as a dict
reported_columns(tb) ==
    IF tb.exists THEN [c \in DOMAIN tb.cols |-> data_type(tb.cols[c])] ELSE <<>>

Stmt(op, c, t, ok) == [op |-> op, column |-> c, type |-> t, ok |-> ok]

\* a statement of verify_and_update_table_schema raises, and a handler goes on
\* with the next column
statement_failed_and_skipped(st) ==
    /\ UNCHANGED <<connVars, localVars, existing_columns>>
    /\ stmts' = Append(stmts, st)
    /\ col' = col + 1
    /\ Goto(IF col < Len(expected_columns(script)) THEN "vs_loop" ELSE "up_insert",
            <<Event("execute_failed", "verify_and_update_table_schema")>>)

\* a statement of verify_and_update_table_schema raises: neither it nor
\* upload_to_local_db nor main handles the error, and each statement was its own
\* transaction
statement_failed(st) ==
    /\ UNCHANGED <<localVars, existing_columns, col>>
    /\ stmts' = Append(stmts, st)
    /\ Returned
    /\ Uncaught("PostgresError", <<Event("execute_failed", "verify_and_update_table_schema")>>)

\* existing_columns = {...: ... for row in await conn.fetch(query)}
verify_and_update_table_schema_fetch ==
    /\ script \in UploadScripts
    /\ pc = "vs_fetch"
    /\ UNCHANGED <<inputVars, plotVars, uploadVars, fetchVars, localVars>>
    /\ stmts' = <<>>
    /\ col' = 1
    /\ \/ /\ existing_columns' = reported_columns(table)
          /\ UNCHANGED connVars
          /\ Goto(IF reported_columns(table) = <<>> THEN "vs_create" ELSE "vs_loop",
                  <<Event("query", "verify_and_update_table_schema")>>)
       \/ /\ existing_columns' = <<>>
          /\ Returned
          /\ Uncaught("PostgresError", <<Event("query_failed", "verify_and_update_table_schema")>>)

\* if not existing_columns: CREATE TABLE module_tests (...); return
verify_and_update_table_schema_create ==
    /\ script \in UploadScripts
    /\ pc = "vs_create"
    /\ UNCHANGED <<inputVars, plotVars, uploadVars, fetchVars>>
    /\ \/ /\ ~table.exists
          /\ table' = [exists |-> TRUE, cols |-> ColumnTypes(create_table_columns(script))]
          /\ stmts' = Append(stmts, Stmt("CREATE TABLE", "", "", TRUE))
          /\ UNCHANGED <<connVars, databases, inserted, users, existing_columns, col>>
          /\ Goto("up_insert", <<Event("execute", "verify_and_update_table_schema")>>)
       \/ \* the table exists (without columns), or the server fails
          /\ statement_failed(Stmt("CREATE TABLE", "", "", FALSE))

\* one round of: for col_name, col_type in expected_columns.items()
verify_and_update_table_schema_column ==
    /\ script \in UploadScripts
    /\ pc = "vs_loop"
    /\ col <= Len(expected_columns(script))
    /\ UNCHANGED <<inputVars, plotVars, uploadVars, fetchVars>>
    /\ LET col_name == expected_columns(script)[col][1]
           col_type == expected_columns(script)[col][2]
           next == IF col < Len(expected_columns(script)) THEN "vs_loop" ELSE "up_insert"
           set == [table EXCEPT !.cols =
                     [c \in DOMAIN table.cols \cup {col_name} |->
                         IF c = col_name THEN col_type ELSE table.cols[c]]]
       IN IF col_name \notin DOMAIN existing_columns
          THEN \/ /\ table' = set
                  /\ stmts' = Append(stmts, Stmt("ADD COLUMN", col_name, col_type, TRUE))
                  /\ col' = col + 1
                  /\ UNCHANGED <<connVars, databases, inserted, users, existing_columns>>
                  /\ Goto(next, <<Event("execute", "verify_and_update_table_schema")>>)
               \/ statement_failed(Stmt("ADD COLUMN", col_name, col_type, FALSE))
          ELSE IF lower(existing_columns[col_name]) # lower(col_type)
          THEN \/ /\ table' = set
                  /\ stmts' = Append(stmts, Stmt("ALTER COLUMN TYPE", col_name, col_type, TRUE))
                  /\ col' = col + 1
                  /\ UNCHANGED <<connVars, databases, inserted, users, existing_columns>>
                  /\ Goto(next, <<Event("execute", "verify_and_update_table_schema")>>)
               \/ statement_failed(Stmt("ALTER COLUMN TYPE", col_name, col_type, FALSE))
          ELSE /\ col' = col + 1
               /\ UNCHANGED <<connVars, localVars, existing_columns, stmts>>
               /\ Goto(next, <<>>)

----------------------------------------------------------------------------
(* readFNALDb.py *)

\* a row of module_tests
LocalRow(m, temp, rh, com) ==
    [module_name |-> m, test_type |-> "iv", temp_c |-> temp, rel_hum |-> rh,
     comments |-> com]

\* the columns read_module_tests selects
read_columns ==
    {"id", "module_name", "status", "status_desc", "ratio_i_at_vs", "ratio_at_vs",
     "rel_hum", "temp_c", "date_test", "meas_v", "meas_i", "imported_at"}

RECURSIVE Reverse(_)
Reverse(s) == IF s = <<>> THEN <<>> ELSE Reverse(Tail(s)) \o <<Head(s)>>

\* main and read_module_tests up to: conn = await asyncpg.connect(...)
read_module_tests_connect ==
    /\ script = "readFNALDb"
    /\ pc = "main"
    /\ UNCHANGED <<inputVars, plotVars, localState, fetchVars>>
    /\ \/ /\ "hgcdb_fnal" \in databases
          /\ Connected
          /\ Goto("rmt_fetch", <<Event("connect", "read_module_tests")>>)
       \/ \* no such database, or the server cannot be reached: except Exception
          /\ UNCHANGED connVars
          /\ Goto("done", <<Event("print_error", "read_module_tests")>>)

\* read_module_tests: the query is built and rows = await conn.fetch(query, *params)
read_module_tests_fetch ==
    /\ script = "readFNALDb"
    /\ pc = "rmt_fetch"
    /\ UNCHANGED <<inputVars, plotVars, localState, module_list>>
    /\ LET filtered == args.module_name # "None"
           module_name == upper(args.module_name)
           q == [select |-> "id, module_name, status, ...", from |-> "module_tests",
                 where |-> filtered,
                 in_list |-> IF filtered THEN <<1>> ELSE <<>>,
                 order_by |-> "imported_at DESC"]
           p == IF filtered THEN <<module_name>> ELSE <<>>
           keep(r) == ~filtered \/ r.module_name = p[1]
       IN /\ query' = q
          /\ params' = p
          /\ \/ /\ table.exists
                /\ read_columns \subseteq DOMAIN table.cols
                /\ rows' = Reverse(SelectSeq(inserted, keep))
                /\ UNCHANGED connVars
                /\ Goto("rmt_print", <<Event("query", "read_module_tests")>>)
             \/ \* a missing table or column, or the server fails: except
                \* Exception prints, and conn.close() is not reached
                /\ rows' = rows
                /\ Returned
                /\ Goto("done", <<Event("query_failed", "read_module_tests"),
                                  Event("print_error", "read_module_tests")>>)

\* read_module_tests closing the connection before it prints the rows
read_module_tests_close_then_print ==
    /\ script = "readFNALDb"
    /\ pc = "rmt_print"
    /\ UNCHANGED <<inputVars, plotVars, localState, fetchVars>>
    /\ ClosedAndReturned
    /\ Goto("done", <<Event("close", "read_module_tests"),
                      Event(IF rows # <<>> THEN "print_rows" ELSE "print_info",
                            "read_module_tests")>>)

\* read_module_tests: the rows are printed; await conn.close()
read_module_tests_print ==
    /\ script = "readFNALDb"
    /\ pc = "rmt_print"
    /\ UNCHANGED <<inputVars, plotVars, localState, fetchVars>>
    /\ ClosedAndReturned
    /\ Goto("done", <<Event(IF rows # <<>> THEN "print_rows" ELSE "print_info",
                            "read_module_tests"),
                      Event("close", "read_module_tests")>>)

----------------------------------------------------------------------------
(* createLocalDb.py *)

\* create_database: conn = await asyncpg.connect(..., database="postgres")
create_database_connect ==
    /\ script = "createLocalDb"
    /\ pc = "main"
    /\ UNCHANGED <<inputVars, plotVars, localState, fetchVars>>
    /\ \/ /\ Connected
          /\ Goto("cd_execute", <<Event("connect", "create_database")>>)
       \/ /\ UNCHANGED connVars
          /\ Uncaught("ConnectionError", <<>>)

\* create_database: try CREATE DATABASE; except DuplicateDatabaseError; finally
\* conn.close()
create_database_execute ==
    /\ script = "createLocalDb"
    /\ pc = "cd_execute"
    /\ UNCHANGED <<inputVars, plotVars, uploadVars, schemaVars, fetchVars, table, inserted, users>>
    /\ ClosedAndReturned
    /\ \/ /\ "test_db" \notin databases
          /\ databases' = databases \cup {"test_db"}
          /\ Goto("st_connect", <<Event("execute", "create_database"),
                                  Event("print_info", "create_database"),
                                  Event("close", "create_database")>>)
       \/ /\ "test_db" \in databases
          /\ databases' = databases
          /\ Goto("st_connect", <<Event("execute_failed", "create_database"),
                                  Event("print_info", "create_database"),
                                  Event("close", "create_database")>>)
       \/ \* another error: finally closes, nothing catches
          /\ databases' = databases
          /\ Uncaught("PostgresError", <<Event("execute_failed", "create_database"),
                                         Event("close", "create_database")>>)

\* setup_table: conn = await asyncpg.connect(..., database=NEW_DB_NAME)
setup_table_connect ==
    /\ script = "createLocalDb"
    /\ pc = "st_connect"
    /\ UNCHANGED <<inputVars, plotVars, localState, fetchVars>>
    /\ \/ /\ "test_db" \in databases
          /\ Connected
          /\ Goto("st_create", <<Event("connect", "setup_table")>>)
       \/ /\ UNCHANGED connVars
          /\ Uncaught("ConnectionError", <<>>)

\* setup_table: CREATE TABLE IF NOT EXISTS users (...)
setup_table_create ==
    /\ script = "createLocalDb"
    /\ pc = "st_create"
    /\ UNCHANGED <<inputVars, plotVars, uploadVars, schemaVars, fetchVars, databases, table, inserted>>
    /\ \/ /\ users' = [users EXCEPT !.exists = TRUE]
          /\ UNCHANGED connVars
          /\ Goto("st_insert", <<Event("execute", "setup_table")>>)
       \/ /\ users' = users
          /\ Returned
          /\ Uncaught("PostgresError", <<Event("execute_failed", "setup_table")>>)

\* setup_table inserting the row whether or not the email is there already
setup_table_insert_always ==
    /\ script = "createLocalDb"
    /\ pc = "st_insert"
    /\ UNCHANGED <<inputVars, plotVars, uploadVars, schemaVars, fetchVars, databases, table, inserted>>
    /\ \/ /\ users' = [users EXCEPT !.emails = Append(@, "alice@example.com")]
          /\ ClosedAndReturned
          /\ Goto("done", <<Event("execute", "setup_table"),
                            Event("print_info", "setup_table"),
                            Event("close", "setup_table")>>)
       \/ /\ users' = users
          /\ Returned
          /\ Uncaught("PostgresError", <<Event("execute_failed", "setup_table")>>)

\* setup_table: INSERT ... ON CONFLICT (email) DO NOTHING; print; conn.close()
setup_table_insert ==
    /\ script = "createLocalDb"
    /\ pc = "st_insert"
    /\ UNCHANGED <<inputVars, plotVars, uploadVars, schemaVars, fetchVars, databases, table, inserted>>
    /\ \/ /\ users' = IF \E k \in 1..Len(users.emails) : users.emails[k] = "alice@example.com"
                      THEN users
                      ELSE [users EXCEPT !.emails = Append(@, "alice@example.com")]
          /\ ClosedAndReturned
          /\ Goto("done", <<Event("execute", "setup_table"),
                            Event("print_info", "setup_table"),
                            Event("close", "setup_table")>>)
       \/ /\ users' = users
          /\ Returned
          /\ Uncaught("PostgresError", <<Event("execute_failed", "setup_table")>>)

\* the runs of createLocalDb started so far
Runs == 1 + Cardinality({k \in 1..Len(trace) : trace[k] = Event("run", "main")})

\* the script is started again against the same server: a new process, whose
\* predecessor's connections ended with it
createLocalDb_run_again ==
    /\ script = "createLocalDb"
    /\ pc \in {"done", "crashed"}
    /\ Runs < MaxRuns
    /\ UNCHANGED <<inputVars, plotVars, localState, fetchVars>>
    /\ conns' = {}
    /\ nconn' = 0
    /\ cur' = 0
    /\ exited' = {}
    /\ pc' = "main"
    /\ exc' = "none"
    /\ trace' = Append(trace, Event("run", "main"))

----------------------------------------------------------------------------
(* create_local_database and upload_to_local_db of fetchCMUdata.py and
   uploadFNAL_IVdata.py *)

\* where main goes on after create_local_database returned
after_create_local_database ==
    IF script = "fetchCMUdata" THEN "cmu_connect" ELSE "files"

\* main up to create_local_database: conn = await asyncpg.connect(...)
create_local_database_connect ==
    /\ script \in UploadScripts
    /\ pc = "main"
    /\ UNCHANGED <<inputVars, plotVars, localState, fetchVars>>
    /\ \/ /\ Connected
          /\ Goto("cld_execute", <<Event("connect", "create_local_database")>>)
       \/ \* except Exception: print; raise
          /\ UNCHANGED connVars
          /\ Uncaught("ConnectionError", <<Event("print_error", "create_local_database")>>)

\* create_local_database without the except DuplicateDatabaseError clause: the
\* duplicate error is printed and re-raised like any other
create_local_database_execute_duplicate_raised ==
    /\ script \in UploadScripts
    /\ pc = "cld_execute"
    /\ UNCHANGED <<inputVars, plotVars, uploadVars, schemaVars, fetchVars, table,
                   inserted, users>>
    /\ \/ /\ "hgcdb_fnal" \notin databases
          /\ databases' = databases \cup {"hgcdb_fnal"}
          /\ ClosedAndReturned
          /\ Goto(after_create_local_database,
                  <<Event("execute", "create_local_database"),
                    Event("print_info", "create_local_database"),
                    Event("close", "create_local_database")>>)
       \/ /\ "hgcdb_fnal" \in databases
          /\ databases' = databases
          /\ Returned
          /\ Uncaught("DuplicateDatabaseError",
                      <<Event("execute_failed", "create_local_database"),
                        Event("print_error", "create_local_database")>>)
       \/ /\ databases' = databases
          /\ Returned
          /\ Uncaught("PostgresError",
                      <<Event("execute_failed", "create_local_database"),
                        Event("print_error", "create_local_database")>>)

\* create_local_database: CREATE DATABASE, print, conn.close(), in a try whose
\* handlers do not close
create_local_database_execute ==
    /\ script \in UploadScripts
    /\ pc = "cld_execute"
    /\ UNCHANGED <<inputVars, plotVars, uploadVars, schemaVars, fetchVars, table,
                   inserted, users>>
    /\ \/ /\ "hgcdb_fnal" \notin databases
          /\ databases' = databases \cup {"hgcdb_fnal"}
          /\ ClosedAndReturned
          /\ Goto(after_create_local_database,
                  <<Event("execute", "create_local_database"),
                    Event("print_info", "create_local_database"),
                    Event("close", "create_local_database")>>)
       \/ \* except DuplicateDatabaseError: print
          /\ "hgcdb_fnal" \in databases
          /\ databases' = databases
          /\ Returned
          /\ Goto(after_create_local_database,
                  <<Event("execute_failed", "create_local_database"),
                    Event("print_info", "create_local_database")>>)
       \/ \* except Exception: print; raise
          /\ databases' = databases
          /\ Returned
          /\ Uncaught("PostgresError",
                      <<Event("execute_failed", "create_local_database"),
                        Event("print_error", "create_local_database")>>)

\* upload_to_local_db: conn = await asyncpg.connect(..., database=db_name)
upload_to_local_db_connect ==
    /\ script \in UploadScripts
    /\ pc = "up_connect"
    /\ UNCHANGED <<inputVars, plotVars, localState, fetchVars>>
    /\ \/ /\ "hgcdb_fnal" \in databases
          /\ Connected
          /\ Goto("vs_fetch", <<Event("connect", "upload_to_local_db")>>)
       \/ /\ UNCHANGED connVars
          /\ Uncaught("ConnectionError", <<>>)

\* the columns the INSERT statement names
insert_columns(sc) ==
    IF sc = "fetchCMUdata"
    THEN <<"module_name", "status", "status_desc", "ratio_i_at_vs", "ratio_at_vs",
           "rel_hum", "temp_c", "date_test", "meas_v", "meas_i", "imported_at">>
    ELSE <<"module_name", "test_type", "meas_v", "meas_i", "rel_hum", "temp_c",
           "date_test", "test_timestamp", "imported_at", "comments">>

\* the number of values ($1, ..., $n) of the INSERT statement
insert_values(sc) == IF sc = "fetchCMUdata" THEN 18 ELSE 10

\* whether the server accepts the INSERT: as many values as columns, every
\* column in the table
InsertOK(sc, tb) ==
    /\ tb.exists
    /\ Len(insert_columns(sc)) = insert_values(sc)
    /\ \A k \in 1..Len(insert_columns(sc)) : insert_columns(sc)[k] \in DOMAIN tb.cols

\* upload_to_local_db: one round of: for row in data: conn.execute(INSERT ...)
upload_to_local_db_insert ==
    /\ script \in UploadScripts
    /\ pc = "up_insert"
    /\ di < Len(data)
    /\ UNCHANGED <<inputVars, plotVars, schemaVars, fetchVars, databases, table, users,
                   fi, env, prompted, data>>
    /\ \/ /\ InsertOK(script, table)
          /\ inserted' = Append(inserted, data[di + 1])
          /\ di' = di + 1
          /\ UNCHANGED connVars
          /\ Goto("up_insert", <<Event("execute", "upload_to_local_db")>>)
       \/ /\ UNCHANGED <<inserted, di>>
          /\ Returned
          /\ Uncaught("PostgresError", <<Event("execute_failed", "upload_to_local_db")>>)

\* upload_to_local_db: await conn.close(); main prints and goes on
upload_to_local_db_close ==
    /\ script \in UploadScripts
    /\ pc = "up_insert"
    /\ di = Len(data)
    /\ UNCHANGED <<inputVars, plotVars, schemaVars, fetchVars, localVars,
                   env, prompted, data, di>>
    /\ ClosedAndReturned
    /\ fi' = IF script = "uploadFNAL_IVdata" THEN fi + 1 ELSE fi
    /\ Goto(IF script = "uploadFNAL_IVdata" THEN "files" ELSE "done",
            <<Event("close", "upload_to_local_db"), Event("print_info", "main")>>)

----------------------------------------------------------------------------
(* fetchCMUdata.py *)

\* the rows of table t for module m with the highest test number
Latest(t, m) ==
    LET mine(r) == r.module_name = m
        own == SelectSeq(TableRows(t), mine)
        top(r) == \A k \in 1..Len(own) : own[k].no <= r.no
    IN SelectSeq(own, top)

Tagged(rs, type, site) ==
    [k \in 1..Len(rs) |->
        [module_name |-> rs[k].module_name, no |-> rs[k].no,
         test_type |-> type, site_name |-> site]]

\* fetch_testing_data: conn = await asyncpg.connect(...)
fetch_testing_data_cmu_connect ==
    /\ script = "fetchCMUdata"
    /\ pc = "cmu_connect"
    /\ UNCHANGED <<inputVars, plotVars, localState, fetchVars>>
    /\ \/ /\ Connected
          /\ Goto("cmu_fetch_iv", <<Event("print_info", "main"),
                                    Event("connect", "fetch_testing_data")>>)
       \/ /\ UNCHANGED connVars
          /\ Uncaught("ConnectionError", <<Event("print_info", "main")>>)

\* fetch_testing_data: iv_rows = await conn.fetch(query_iv, module_name)
fetch_testing_data_cmu_iv ==
    /\ script = "fetchCMUdata"
    /\ pc = "cmu_fetch_iv"
    /\ UNCHANGED <<inputVars, plotVars, localState, module_list>>
    /\ query' = [select |-> "module_name, status, ..., meas_v, meas_i",
                 from |-> "module_iv_test", where |-> TRUE, in_list |-> <<1, 1>>,
                 order_by |-> ""]
    /\ params' = <<upper(args.module_name)>>
    /\ \/ /\ rows' = Latest("module_iv_test", upper(args.module_name))
          /\ UNCHANGED connVars
          /\ Goto("cmu_fetch_ped", <<Event("query", "fetch_testing_data")>>)
       \/ /\ rows' = rows
          /\ Returned
          /\ Uncaught("PostgresError", <<Event("query_failed", "fetch_testing_data")>>)

\* query_ped: its outer SELECT has no FROM clause
query_ped ==
    [select |-> "module_name, mod_pedtest_no, ..., pedestal_config_json",
     from |-> "", where |-> TRUE, in_list |-> <<1, 1>>, order_by |-> ""]

\* fetch_testing_data: ped_rows = await conn.fetch(query_ped, module_name); the
\* rows are tagged; await conn.close(); return; main uploads or prints
fetch_testing_data_cmu_ped ==
    /\ script = "fetchCMUdata"
    /\ pc = "cmu_fetch_ped"
    /\ UNCHANGED <<inputVars, plotVars, localVars, schemaVars, module_list,
                   fi, env, prompted>>
    /\ query' = query_ped
    /\ params' = <<upper(args.module_name)>>
    /\ IF QueryOK(query_ped, <<upper(args.module_name)>>)
       THEN LET cmu_data ==
                   Tagged(rows, "iv", upper(args.mac))
                   \o Tagged(Latest("module_pedestal_test", upper(args.module_name)),
                             "pedestal", upper(args.mac))
            IN /\ rows' = cmu_data
               /\ data' = cmu_data
               /\ di' = 0
               /\ ClosedAndReturned
               /\ Goto(IF cmu_data # <<>> THEN "up_connect" ELSE "done",
                       <<Event("query", "fetch_testing_data"),
                         Event("close", "fetch_testing_data"),
                         Event("print_info", "main")>>)
       ELSE /\ UNCHANGED <<rows, data, di>>
            /\ Returned
            /\ Uncaught("PostgresError", <<Event("query_failed", "fetch_testing_data")>>)

----------------------------------------------------------------------------
(* uploadFNAL_IVdata.py *)

\* the default temperature and relative humidity, as str(float)
DEFAULT_TEMPERATURE == "25.0"
DEFAULT_RH == "50.0"

\* a file of the directory: iv_<module>_<stamp>_normal.<ext>
FileKey(f) ==
    NameRank(f.module) * 100 + f.stamp * 10 + (IF f.ext = "txt" THEN 1 ELSE 0)

\* sorted(os.listdir(data_directory))
RECURSIVE sorted(_)
sorted(S) ==
    IF S = {} THEN <<>>
    ELSE LET f == CHOOSE x \in S : \A o \in S : FileKey(x) <= FileKey(o)
         IN <<f>> \o sorted(S \ {f})

listing == sorted(args.directory)

\* float(s) succeeds
is_float(s) == s \in {"23.5", "40"}

\* str(float(s))
str_float(s) == IF s = "40" THEN "40.0" ELSE s

\* Path(filepath).stem.split('_')[1].replace("-", "")
file_module_name(f) == IF f.module = "M-1" THEN "M1" ELSE f.module

\* the for loop of main: the next file name; a .txt file is announced
main_upload_next_file ==
    /\ script = "uploadFNAL_IVdata"
    /\ pc = "files"
    /\ UNCHANGED <<inputVars, plotVars, localVars, schemaVars, fetchVars, connVars,
                   env, prompted, data, di>>
    /\ IF fi = Len(listing)
       THEN /\ fi' = fi
            /\ Goto("done", <<>>)
       ELSE IF listing[fi + 1].ext = "txt"
       THEN /\ fi' = fi
            /\ Goto("env", <<Event("print_info", "main")>>)
       ELSE /\ fi' = fi + 1
            /\ Goto("files", <<>>)

\* get_environmental_data, and main's unpacking of what it returns into three
\* names
get_environmental_data ==
    /\ script = "uploadFNAL_IVdata"
    /\ pc = "env"
    /\ UNCHANGED <<inputVars, plotVars, localVars, schemaVars, fetchVars, connVars,
                   fi, data, di>>
    /\ prompted' = Append(prompted, listing[fi + 1])
    /\ \E temp_input \in {"", "23.5", "abc"}, rh_input \in {"", "40", "abc"},
          comments \in {"", "note"} :
          IF (temp_input # "" /\ ~is_float(temp_input))
             \/ (rh_input # "" /\ ~is_float(rh_input))
          THEN \* except ValueError: two values are returned, main unpacks three
               /\ env' = [temperature |-> DEFAULT_TEMPERATURE,
                          relative_humidity |-> DEFAULT_RH, addComments |-> "missing"]
               /\ Uncaught("ValueError", <<Event("prompt", "get_environmental_data"),
                                           Event("print_error", "get_environmental_data")>>)
          ELSE /\ env' = [temperature |-> IF temp_input # "" THEN str_float(temp_input)
                                          ELSE DEFAULT_TEMPERATURE,
                          relative_humidity |-> IF rh_input # "" THEN str_float(rh_input)
                                                ELSE DEFAULT_RH,
                          addComments |-> comments]
               /\ Goto("parse", <<Event("prompt", "get_environmental_data"),
                                  Event("print_info", "main")>>)

\* parse_iv_file, and main's: if tests: upload_to_local_db(...) else: print
parse_iv_file ==
    /\ script = "uploadFNAL_IVdata"
    /\ pc = "parse"
    /\ UNCHANGED <<inputVars, plotVars, localVars, schemaVars, fetchVars, connVars,
                   env, prompted>>
    /\ LET f == listing[fi + 1]
           test == LocalRow(file_module_name(f), env.temperature,
                            env.relative_humidity,
                            IF env.addComments # "" THEN env.addComments ELSE "None")
       IN \/ /\ f.content = "data"
             /\ data' = <<test>>
             /\ di' = 0
             /\ fi' = fi
             /\ Goto("up_connect", <<Event("read_file", "parse_iv_file"),
                                     Event("print_info", "main")>>)
          \/ \* read_text_file returns no measurement
             /\ f.content = "empty"
             /\ data' = <<>>
             /\ di' = 0
             /\ fi' = fi + 1
             /\ Goto("files", <<Event("read_file", "parse_iv_file"),
                                Event("print_info", "main")>>)
          \/ \* read_text_file raises on a file it cannot parse
             /\ f.content = "empty"
             /\ UNCHANGED <<data, di, fi>>
             /\ Uncaught("FileError", <<Event("read_failed", "parse_iv_file")>>)

----------------------------------------------------------------------------
(* Connections no function closed *)

\* a connection whose function returned or raised without conn.close() is no
\* longer referenced once the frame is gone: when, and whether, the interpreter
\* finalizes the object and so ends the connection before the process exits is
\* up to its garbage collector
abandoned_connection_finalized ==
    /\ \E c \in conns \cap exited : conns' = conns \ {c}
    /\ UNCHANGED <<inputVars, plotVars, localState, fetchVars, nconn, cur, exited,
                   pc, exc, trace>>

----------------------------------------------------------------------------
(* The runs of the scripts *)

EmptyRemote == [t \in Tables |-> <<>>]

\* the command lines of compareIV, getall_modules and fnal_IVcompare
CompareArgs(sc) ==
    {[list_modules |-> TRUE, mac |-> m, data_type |-> "None",
      module_names |-> <<>>, plot |-> FALSE] : m \in {"CMU", "UCSB"}}
    \cup
    {[list_modules |-> FALSE, mac |-> "CMU", data_type |-> dt,
      module_names |-> ns, plot |-> pl] :
        dt \in DataTypes \cup {"None", "mod_xyz"},
        ns \in SeqsUpTo(RawNames, MaxNames),
        pl \in IF sc = "getall_modules" THEN {FALSE} ELSE BOOLEAN}

\* the table a command line reads
TableOf(a) ==
    CASE a.data_type = "mod_iv" -> {"module_iv_test"}
      [] a.data_type = "mod_ped" -> {"module_pedestal_test"}
      [] a.data_type = "mod_qcs" -> {"module_qc_summary"}
      [] a.list_modules -> Tables
      [] OTHER -> {}

InitCompare ==
    /\ script \in CompareScripts
    /\ args \in CompareArgs(script)
    /\ \E c \in SeqsUpTo(Modules, MaxRemote) :
          remote = [t \in Tables |-> IF t \in TableOf(args) THEN c ELSE <<>>]

\* the local server as a script may find it: no hgcdb_fnal; hgcdb_fnal without
\* module_tests; module_tests as either upload script creates it
LocalStarts ==
    {[databases |-> {"postgres"}, table |-> NoTable]}
    \cup {[databases |-> {"postgres", "hgcdb_fnal"}, table |-> t] :
            t \in {NoTable} \cup {[exists |-> TRUE,
                                   cols |-> ColumnTypes(create_table_columns(o))] :
                                     o \in UploadScripts}}

InitRead ==
    /\ script = "readFNALDb"
    /\ args \in [module_name : {"None", "m1", "M2"}]
    /\ remote = EmptyRemote
    /\ \E l \in LocalStarts :
          /\ databases = l.databases
          /\ table = l.table
          /\ inserted \in IF l.table.exists
                          THEN {[k \in 1..Len(ms) |-> LocalRow(ms[k], "25.0", "50.0", "None")] :
                                   ms \in SeqsUpTo(Modules, MaxLocalRows)}
                          ELSE {<<>>}
    /\ users = NoUsers

InitCreateLocalDb ==
    /\ script = "createLocalDb"
    /\ args = [none |-> TRUE]
    /\ remote = EmptyRemote
    /\ table = NoTable
    /\ inserted = <<>>
    /\ \/ /\ databases = {"postgres"}
          /\ users = NoUsers
       \/ /\ databases = {"postgres", "test_db"}
          /\ users \in {NoUsers} \cup
                       {[exists |-> TRUE, emails |-> e] :
                          e \in {<<>>, <<"alice@example.com">>, <<"bob@example.com">>}}

InitFetchCMU ==
    /\ script = "fetchCMUdata"
    /\ args \in [module_name : {"m1", "M2"}, mac : {"CMU", "ucsb"}]
    /\ \E iv \in SeqsUpTo(Modules, MaxRemote), ped \in SeqsUpTo(Modules, MaxRemote) :
          remote = [t \in Tables |->
                      CASE t = "module_iv_test" -> iv
                        [] t = "module_pedestal_test" -> ped
                        [] OTHER -> <<>>]
    /\ \E l \in LocalStarts : databases = l.databases /\ table = l.table
    /\ inserted = <<>>
    /\ users = NoUsers

\* the files a directory may hold
Files == [module : {"M-1", "M2"}, stamp : {1}, ext : {"txt", "csv"},
          content : {"data", "empty"}]

SameName(f, g) == f.module = g.module /\ f.stamp = g.stamp /\ f.ext = g.ext

Directories ==
    {D \in SubsetsUpTo(Files, MaxFiles) :
        \A f \in D, g \in D : SameName(f, g) => f = g}

InitUpload ==
    /\ script = "uploadFNAL_IVdata"
    /\ args \in [directory : Directories, module_name : {"None", "m-1", "M2"}]
    /\ remote = EmptyRemote
    /\ \E l \in LocalStarts : databases = l.databases /\ table = l.table
    /\ inserted = <<>>
    /\ users = NoUsers

InitRun ==
    /\ pc = "main"
    /\ module_list = <<>>
    /\ query = NoQuery
    /\ params = <<>>
    /\ rows = <<>>
    /\ conns = {}
    /\ nconn = 0
    /\ cur = 0
    /\ exited = {}
    /\ exc = "none"
    /\ trace = <<>>
    /\ existing_columns = <<>>
    /\ col = 0
    /\ stmts = <<>>
    /\ fi = 0
    /\ env = [temperature |-> "", relative_humidity |-> "", addComments |-> ""]
    /\ prompted = <<>>
    /\ data = <<>>
    /\ di = 0

\* no local server is involved
InitNoLocal ==
    /\ databases = {}
    /\ table = NoTable
    /\ inserted = <<>>
    /\ users = NoUsers

\* plot_iv_data is not stepped through
InitNoPlot ==
    /\ i = 0
    /\ curves = <<>>
    /\ skipped = <<>>

Init ==
    /\ InitRun
    /\ InitNoPlot
    /\ \/ InitCompare /\ InitNoLocal
       \/ InitRead
       \/ InitCreateLocalDb
       \/ InitFetchCMU
       \/ InitUpload

Next ==
    \/ main_compare
    \/ fetch_testing_data_connect
    \/ fetch_testing_data_fetch
    \/ fetch_testing_data_close
    \/ main_compare_output
    \/ fetch_all_module_names_connect
    \/ fetch_all_module_names_fetch
    \/ fetch_all_module_names_close
    \/ read_module_tests_connect
    \/ read_module_tests_fetch
    \/ read_module_tests_print
    \/ create_database_connect
    \/ create_database_execute
    \/ setup_table_connect
    \/ setup_table_create
    \/ setup_table_insert
    \/ createLocalDb_run_again
    \/ abandoned_connection_finalized
    \/ create_local_database_connect
    \/ create_local_database_execute
    \/ fetch_testing_data_cmu_connect
    \/ fetch_testing_data_cmu_iv
    \/ fetch_testing_data_cmu_ped
    \/ main_upload_next_file
    \/ get_environmental_data
    \/ parse_iv_file
    \/ upload_to_local_db_connect
    \/ verify_and_update_table_schema_fetch
    \/ verify_and_update_table_schema_create
    \/ verify_and_update_table_schema_column
    \/ upload_to_local_db_insert
    \/ upload_to_local_db_close

Spec == Init /\ [][Next]_vars

----------------------------------------------------------------------------
(* verify_and_update_table_schema from every starting table *)

\* module_tests with the columns of cs, those of D left out ("missing") or
\* given the type f names
Deviate(cs, D, f) ==
    LET full == ColumnTypes(cs)
    IN [exists |-> TRUE,
        cols |-> [c \in {x \in DOMAIN full : x \notin D \/ f[x] # "missing"} |->
                    IF c \in D THEN f[c] ELSE full[c]]]

\* the tables verify_and_update_table_schema of script sc may find
SchemaStarts(sc) ==
    LET names == {expected_columns(sc)[k][1] : k \in 1..Len(expected_columns(sc))}
    IN {NoTable, [exists |-> TRUE, cols |-> <<>>],
        [exists |-> TRUE, cols |-> [c \in {"id"} |-> "INTEGER"]]}
       \cup {[exists |-> TRUE, cols |-> ColumnTypes(create_table_columns(o))] :
                o \in UploadScripts}
       \cup UNION {{Deviate(create_table_columns(sc), D, f) :
                       f \in [D -> {"missing", "TEXT", "INTEGER"}]} :
                   D \in SubsetsUpTo(names, MaxDeviations)}

\* upload_to_local_db has connected and calls verify_and_update_table_schema
InitSchema ==
    /\ script \in UploadScripts
    /\ args = [module_name |-> "M1"]
    /\ remote = EmptyRemote
    /\ pc = "vs_fetch"
    /\ module_list = <<>>
    /\ query = NoQuery
    /\ params = <<>>
    /\ rows = <<>>
    /\ conns = {1}
    /\ nconn = 1
    /\ cur = 1
    /\ exited = {}
    /\ exc = "none"
    /\ trace = <<>>
    /\ databases = {"postgres", "hgcdb_fnal"}
    /\ table \in SchemaStarts(script)
    /\ inserted = <<>>
    /\ users = NoUsers
    /\ existing_columns = <<>>
    /\ col = 0
    /\ stmts = <<>>
    /\ fi = 0
    /\ env = [temperature |-> "25.0", relative_humidity |-> "50.0", addComments |-> ""]
    /\ prompted = <<>>
    /\ data = <<LocalRow("M1", "25.0", "50.0", "None")>>
    /\ di = 0
    /\ InitNoPlot

NextSchema ==
    \/ verify_and_update_table_schema_fetch
    \/ verify_and_update_table_schema_create
    \/ verify_and_update_table_schema_column

SpecSchema == InitSchema /\ [][NextSchema]_vars

----------------------------------------------------------------------------
(* plot_iv_data of compareIV.py and fnal_IVcompare.py *)

PlotScripts == {"compareIV", "fnal_IVcompare"}

\* a real[] value as asyncpg returns it: None (SQL NULL) or a list
Null == [isnull |-> TRUE, elems |-> <<>>]
List(s) == [isnull |-> FALSE, elems |-> s]
Arrays == {Null} \cup {List([k \in 1..n |-> 1]) : n \in 0..MaxArrayLen}

\* the truth value of a list or None
truthy(a) == ~a.isnull /\ a.elems # <<>>

\* the test without the comparison of the lengths
should_plot_nonempty(row) == truthy(row.meas_v) /\ truthy(row.meas_i)

\* if voltages and currents and len(voltages) == len(currents)
should_plot(row) ==
    /\ truthy(row.meas_v)
    /\ truthy(row.meas_i)
    /\ Len(row.meas_v.elems) = Len(row.meas_i.elems)

\* the colours of the tab20 colour map
TabN == 20

\* plt.cm.tab20(k / max(n, 1)): the entry of the map at int(k / n * 20), the
\* last entry at 1.0
tab20(k, n) ==
    LET m == IF n > 1 THEN n ELSE 1
        x == (k * TabN) \div m
    IN [map |-> "tab20", idx |-> IF x >= TabN THEN TabN - 1 ELSE x]

\* total_rows: fnal_IVcompare counts the two files, compareIV uses len(rows)
total_rows ==
    IF script = "fnal_IVcompare"
    THEN Len(rows) + (IF args.file1 # "" THEN 1 ELSE 0)
                   + (IF args.file2 # "" THEN 1 ELSE 0)
    ELSE Len(rows)

\* one round of: for i, row in enumerate(rows)
plot_iv_data_row ==
    /\ script \in PlotScripts
    /\ pc = "plot_loop"
    /\ i < Len(rows)
    /\ UNCHANGED <<inputVars, fetchVars, connVars, localState>>
    /\ i' = i + 1
    /\ IF should_plot(rows[i + 1])
       THEN /\ curves' = Append(curves, [row |-> i, color |-> tab20(i, total_rows)])
            /\ skipped' = skipped
            /\ Goto("plot_loop", <<>>)
       ELSE /\ curves' = curves
            /\ skipped' = Append(skipped, i)
            /\ Goto("plot_loop", <<Event("print_info", "plot_iv_data")>>)

\* the curve of a text file (fnal_IVcompare), drawn when the path is not empty;
\* read_text_file raises on a file that cannot be read or parsed
file_curve(path, colour, n) ==
    IF path # "" THEN <<[row |-> n, color |-> [map |-> colour, idx |-> 0]]>> ELSE <<>>

\* after the loop: the file curves and savefig (fnal_IVcompare), plt.show()
plot_iv_data_show ==
    /\ script \in PlotScripts
    /\ pc = "plot_loop"
    /\ i = Len(rows)
    /\ UNCHANGED <<inputVars, fetchVars, connVars, localState, i, skipped>>
    /\ IF script = "compareIV"
       THEN /\ curves' = curves
            /\ Goto("plot_done", <<Event("plot_rows", "plot_iv_data")>>)
       ELSE IF args.file1 = "unreadable"
       THEN /\ curves' = curves
            /\ Uncaught("FileError", <<>>)
       ELSE IF args.file2 = "unreadable"
       THEN /\ curves' = curves \o file_curve(args.file1, "r", -1)
            /\ Uncaught("FileError", <<>>)
       ELSE /\ curves' = curves \o file_curve(args.file1, "r", -1)
                                \o file_curve(args.file2, "m", -2)
            /\ Goto("plot_done", <<Event("save_rows", "plot_iv_data"),
                                   Event("plot_rows", "plot_iv_data")>>)

PlotRows ==
    UNION {[1..n -> [module_name : {"M1"}, no : {1}, meas_v : Arrays, meas_i : Arrays]] :
              n \in 1..MaxPlotRows}

\* main calls plot_iv_data(rows) with the rows of a mod_iv fetch, which are not
\* empty
InitPlot ==
    /\ script \in PlotScripts
    /\ args \in IF script = "compareIV" THEN {[file1 |-> "", file2 |-> ""]}
                ELSE [file1 : {"", "unreadable", "data"}, file2 : {"", "unreadable", "data"}]
    /\ remote = EmptyRemote
    /\ pc = "plot_loop"
    /\ module_list = <<"M1">>
    /\ query = NoQuery
    /\ params = <<>>
    /\ rows \in PlotRows
    /\ conns = {}
    /\ nconn = 1
    /\ cur = 0
    /\ exited = {1}
    /\ exc = "none"
    /\ trace = <<>>
    /\ existing_columns = <<>>
    /\ col = 0
    /\ stmts = <<>>
    /\ fi = 0
    /\ env = [temperature |-> "", relative_humidity |-> "", addComments |-> ""]
    /\ prompted = <<>>
    /\ data = <<>>
    /\ di = 0
    /\ InitNoLocal
    /\ InitNoPlot

NextPlot ==
    \/ plot_iv_data_row
    \/ plot_iv_data_show

SpecPlot == InitPlot /\ [][NextPlot]_vars

----------------------------------------------------------------------------
(* Properties of the runs *)

\* fetch_testing_data of a compare script has handed a query to conn.fetch
FetchIssued == script \in CompareScripts /\ query.from \in Tables

\* the table a data type names
FromOf(dt) ==
    CASE dt = "mod_iv" -> "module_iv_test"
      [] dt = "mod_ped" -> "module_pedestal_test"
      [] OTHER -> "module_qc_summary"

\* C1: for a module list of n >= 1 names whose first is not 'ALL', the query
\* issued is the one data_type selects, its clause is WHERE module_name IN
\* ($1, ..., $n) with exactly n placeholders numbered 1..n, and the n names are
\* the query parameters, in list order.
C1_WhereClauseHasOnePlaceholderPerName ==
    (FetchIssued /\ module_list # <<>> /\ module_list[1] # "ALL") =>
        /\ query.from = FromOf(args.data_type)
        /\ query.where
        /\ Len(query.in_list) = Len(module_list)
        /\ \A k \in 1..Len(module_list) : query.in_list[k] = k
        /\ params = module_list

C1_Witness ==
    /\ FetchIssued
    /\ pc = "ftd_close"
    /\ Len(module_list) = 2
    /\ module_list = <<"M1", "M2">>
    /\ rows # <<>>

\* C2: when the module list is 'ALL' (which main substitutes when no -mn name
\* is given, and which a typed 'all' becomes by upper-casing), the query has no
\* WHERE clause and no parameters, and the fetch returns every row of the table.
C2_AllFetchesUnfiltered ==
    /\ (script \in CompareScripts /\ pc \in {"ftd_connect", "ftd_fetch", "ftd_close", "main_output"}
        /\ (args.module_names = <<>> \/ args.module_names[1] \in {"all", "ALL"}))
          => (module_list # <<>> /\ module_list[1] = "ALL")
    /\ (FetchIssued /\ module_list # <<>> /\ module_list[1] = "ALL") =>
          /\ query.from = FromOf(args.data_type)
          /\ ~query.where
          /\ query.in_list = <<>>
          /\ params = <<>>
          /\ pc = "ftd_close" =>
                /\ Len(rows) = Len(remote[query.from])
                /\ {rows[k] : k \in 1..Len(rows)}
                     = {TableRows(query.from)[k] : k \in 1..Len(remote[query.from])}

C2_Witness ==
    /\ FetchIssued
    /\ pc = "ftd_close"
    /\ args.module_names = <<"all">>
    /\ module_list = <<"ALL">>
    /\ Len(rows) = 2
    /\ rows[1].module_name # rows[2].module_name

----------------------------------------------------------------------------
(* Properties of verify_and_update_table_schema *)

ExpectedName(sc, k) == expected_columns(sc)[k][1]
ExpectedType(sc, k) == expected_columns(sc)[k][2]

\* C3: whatever module_tests was when verify_and_update_table_schema was called
\* (absent, or present with some of the expected columns in some types), when
\* it returns without error the table exists and has every expected column.
C3_ReturnedTableHasExpectedColumns ==
    (script \in UploadScripts /\ pc = "up_insert") =>
        /\ table.exists
        /\ \A k \in 1..Len(expected_columns(script)) :
              ExpectedName(script, k) \in DOMAIN table.cols

C3_Witness ==
    /\ script \in UploadScripts
    /\ pc = "up_insert"
    /\ existing_columns # <<>>
    /\ \E k \in 1..Len(stmts) : stmts[k].op = "ADD COLUMN"
    /\ \E k \in 1..Len(stmts) : stmts[k].op = "ALTER COLUMN TYPE"

\* C4 (as claimed): with no column reported there is exactly one CREATE TABLE and
\* no ALTER; otherwise no CREATE, and the expected columns are walked in order
\* with one ADD COLUMN for a missing column, one ALTER COLUMN TYPE for a column
\* whose reported type differs case-insensitively from the expected type, and no
\* statement for a column that is present with the expected type.
C4_StatementsFollowColumnDiff ==
    [][(script \in UploadScripts /\ exc' = "none") =>
        /\ (pc = "vs_fetch" /\ existing_columns' = <<>>) => pc' = "vs_create"
        /\ (pc = "vs_fetch" /\ existing_columns' # <<>>) => pc' = "vs_loop" /\ col' = 1
        /\ pc = "vs_create" =>
              /\ stmts' = <<Stmt("CREATE TABLE", "", "", TRUE)>>
              /\ pc' = "up_insert"
        /\ pc = "vs_loop" =>
              LET n == ExpectedName(script, col)
                  t == ExpectedType(script, col)
              IN /\ col' = col + 1
                 /\ \A k \in 1..Len(stmts') : stmts'[k].op # "CREATE TABLE"
                 /\ n \notin DOMAIN table.cols =>
                       stmts' = Append(stmts, Stmt("ADD COLUMN", n, t, TRUE))
                 /\ (n \in DOMAIN table.cols
                       /\ lower(data_type(table.cols[n])) # lower(t)) =>
                       stmts' = Append(stmts, Stmt("ALTER COLUMN TYPE", n, t, TRUE))
                 /\ (n \in DOMAIN table.cols /\ table.cols[n] = t) =>
                       stmts' = stmts
      ]_vars

\* C5: when a statement of verify_and_update_table_schema fails, it is the last
\* one executed, the changes of the statements before it are in the table, the
\* column it was about and the columns after it are as they were found, and the
\* error has left the function and its callers.
C5_FailedStatementLeavesEarlierChanges ==
    \A k \in 1..Len(stmts) : ~stmts[k].ok =>
        /\ k = Len(stmts)
        /\ pc = "crashed"
        /\ exc = "PostgresError"
        /\ \A j \in 1..(k - 1) :
              /\ stmts[j].ok
              /\ stmts[j].column \in DOMAIN table.cols
              /\ table.cols[stmts[j].column] = stmts[j].type
        /\ \A m \in col..Len(expected_columns(script)) :
              LET n == ExpectedName(script, m)
              IN IF n \in DOMAIN existing_columns
                 THEN n \in DOMAIN table.cols
                      /\ data_type(table.cols[n]) = existing_columns[n]
                 ELSE n \notin DOMAIN table.cols

C5_Witness ==
    /\ pc = "crashed"
    /\ Len(stmts) = 3
    /\ stmts[1].op = "ADD COLUMN"
    /\ stmts[2].op = "ALTER COLUMN TYPE"
    /\ ~stmts[3].ok
    /\ col < Len(expected_columns(script))

----------------------------------------------------------------------------
(* Properties of plot_iv_data *)

\* the rows among the first n that a sequence of row numbers names
Named(s) == {s[k] : k \in 1..Len(s)}

\* C6: a row gets a curve if and only if its voltage array and its current
\* array are both non-empty and of the same length; every other row is skipped
\* with a message; and a skipped row does not stop the rows after it from being
\* examined: when the loop is left every row has been examined.
C6_CurveIffArraysMatch ==
    /\ \A k \in 0..(i - 1) :
          LET v == rows[k + 1].meas_v
              c == rows[k + 1].meas_i
              good == /\ ~v.isnull /\ ~c.isnull
                      /\ Len(v.elems) > 0 /\ Len(c.elems) > 0
                      /\ Len(v.elems) = Len(c.elems)
          IN /\ good <=> \E j \in 1..Len(curves) : curves[j].row = k
             /\ ~good <=> k \in Named(skipped)
    /\ Named(skipped) \subseteq 0..(i - 1)
    /\ \A j \in 1..Len(curves) : curves[j].row < i
    /\ pc \in {"plot_done", "crashed"} => i = Len(rows)
    /\ Len(trace) >= Len(skipped)

C6_Witness ==
    /\ pc = "plot_done"
    /\ Len(rows) = 2
    /\ skipped = <<0>>
    /\ rows[1].meas_v = List(<<1>>)
    /\ rows[1].meas_i = List(<<1, 1>>)
    /\ curves # <<>>
    /\ curves[1].row = 1

----------------------------------------------------------------------------
(* Connections, errors and the order of the steps of a run *)

\* C7: every database connection a function opens is closed within the same
\* call: whenever the function has returned or raised (normally, on a
\* duplicate-database error, on a failed query), the connection it opened is
\* closed.
C7_ConnectionClosedWhenCallExits == conns \cap exited = {}

\* an event of a database operation or of a file read that raised
Failed(e) == e.ev \in {"query_failed", "execute_failed", "read_failed"}

DatabaseOrFileErrors == {"ConnectionError", "PostgresError", "FileError"}

\* C8 as stated: no error of a database operation or of reading an input file
\* leaves main as an uncaught exception.
C8_NoErrorLeavesMain == ~(pc = "crashed" /\ exc \in DatabaseOrFileErrors)

\* the event at place k of t is CREATE DATABASE raising DuplicateDatabaseError,
\* which the except clause of create_local_database or create_database prints
DuplicateCaught(t, k) ==
    /\ t[k] \in {Event("execute_failed", "create_local_database"),
                 Event("execute_failed", "create_database")}
    /\ k < Len(t)
    /\ t[k + 1].ev = "print_info"
    /\ t[k + 1].fn = t[k].fn

\* C8, amended: an error of a database operation or of a file read is caught
\* and printed in two places only: read_module_tests of readFNALDb catches and
\* prints every exception, so readFNALDb never ends with an uncaught exception,
\* and create_local_database and create_database catch DuplicateDatabaseError,
\* print that the database exists and go on. Every other such error ends the
\* run as an uncaught exception.
C8_OnlyReadAndDuplicateAreCaught ==
    [][/\ script = "readFNALDb" => pc' # "crashed"
       /\ \A k \in (Len(trace) + 1)..Len(trace') :
            Failed(trace'[k]) =>
               IF script = "readFNALDb"
               THEN /\ k < Len(trace')
                    /\ trace'[k + 1] = Event("print_error", "read_module_tests")
                    /\ pc' = "done"
               ELSE IF DuplicateCaught(trace', k)
               THEN /\ pc' \notin {"crashed", "done"}
                    /\ exc' = "none"
                    /\ databases \cap {"hgcdb_fnal", "test_db"} # {}
               ELSE /\ pc' = "crashed"
                    /\ exc' \in DatabaseOrFileErrors]_vars

\* an upload run went on after the duplicate-database error was caught and
\* printed, and ended with the uncaught error of a later statement
C8_Witness ==
    /\ script = "uploadFNAL_IVdata"
    /\ pc = "crashed"
    /\ exc = "PostgresError"
    /\ Len(trace) >= 3
    /\ DuplicateCaught(trace, 2)
    /\ trace[Len(trace)] = Event("execute_failed", "upload_to_local_db")

\* the events by which fetched rows are printed, saved or plotted
RowOutput(e) == e.ev \in {"print_rows", "save_rows", "plot_rows"}

\* the events of a statement sent over a connection
Statement(e) == e.ev \in {"query", "query_failed", "execute", "execute_failed"}

\* a connection is open at place k of the trace
OpenAt(k) ==
    \E j \in 1..(k - 1) :
        /\ trace[j].ev = "connect"
        /\ \A m \in (j + 1)..(k - 1) : trace[m].ev # "close"

\* C9 as stated: the steps come in the order connect, query, output, close, so
\* the rows are printed, saved or plotted while the connection is still open.
C9_OutputBeforeClose ==
    \A k \in 1..Len(trace) : RowOutput(trace[k]) => OpenAt(k)

\* C9, amended: no statement is sent on a connection before it is opened and no
\* fetched row is printed, saved or plotted before its query returned; the
\* connection is closed after that output in readFNALDb only, while in
\* compareIV, getall_modules and fnal_IVcompare fetch_testing_data closes the
\* connection before main prints, saves or plots the rows.
C9_StepsInOrder ==
    /\ \A k \in 1..Len(trace) : Statement(trace[k]) => OpenAt(k)
    /\ \A k \in 1..Len(trace) :
          RowOutput(trace[k]) =>
             /\ \E j \in 1..(k - 1) : trace[j].ev = "query"
             /\ IF script = "readFNALDb"
                THEN /\ OpenAt(k)
                     /\ pc = "done" => \E m \in (k + 1)..Len(trace) : trace[m].ev = "close"
                ELSE /\ ~OpenAt(k)
                     /\ \E j \in 1..(k - 1), m \in 1..(k - 1) :
                          /\ j < m
                          /\ trace[j].ev = "query"
                          /\ trace[m].ev = "close"

\* a readFNALDb run printed rows and then closed its connection
C9_Witness ==
    /\ script = "readFNALDb"
    /\ pc = "done"
    /\ rows # <<>>
    /\ \E k \in 1..Len(trace) : RowOutput(trace[k])
    /\ trace[Len(trace)].ev = "close"

\* C10: in uploadFNAL_IVdata, when -mn names a module, only the text files of
\* that module are prompted for and inserted.
C10_OnlyNamedModuleProcessed ==
    (script = "uploadFNAL_IVdata" /\ args.module_name # "None") =>
        LET named == upper(args.module_name)
        IN /\ \A k \in 1..Len(prompted) : prompted[k].module = named
           /\ \A k \in 1..Len(inserted) :
                 inserted[k].module_name = file_module_name([module |-> named])

----------------------------------------------------------------------------
(* uploadFNAL_IVdata: the prompts *)

\* get_environmental_data has just printed "Invalid input ... Using defaults"
InvalidInputReported ==
    /\ script = "uploadFNAL_IVdata"
    /\ trace # <<>>
    /\ trace[Len(trace)] = Event("print_error", "get_environmental_data")

\* C11: in uploadFNAL_IVdata, when the temperature or relative-humidity input
\* for a file is not a valid number, the defaults 25.0 and 50.0 are used for
\* that file and main goes on to parse and upload it and the files after it.
C11_InvalidInputUsesDefaults ==
    InvalidInputReported =>
        /\ pc = "parse"
        /\ exc = "none"
        /\ env.temperature = DEFAULT_TEMPERATURE
        /\ env.relative_humidity = DEFAULT_RH

----------------------------------------------------------------------------
(* fetchCMUdata: what is fetched and what is uploaded *)

\* the module asked for has IV and pedestal records at the site
HasIvAndPedestal ==
    /\ Latest("module_iv_test", upper(args.module_name)) # <<>>
    /\ Latest("module_pedestal_test", upper(args.module_name)) # <<>>

\* fetch_testing_data has sent its second query
PedestalQuerySent == script = "fetchCMUdata" /\ query.select = query_ped.select

\* C12: fetch_testing_data of fetchCMUdata returns, for a module with IV and
\* pedestal records at the site, the rows of its latest IV test tagged
\* test_type 'iv' followed by the rows of its latest pedestal test tagged
\* test_type 'pedestal', every row with site_name equal to the MAC id asked for.
C12_LatestIvThenPedestalReturned ==
    (PedestalQuerySent /\ HasIvAndPedestal) =>
        /\ exc = "none"
        /\ data = Tagged(Latest("module_iv_test", upper(args.module_name)),
                         "iv", upper(args.mac))
                  \o Tagged(Latest("module_pedestal_test", upper(args.module_name)),
                            "pedestal", upper(args.mac))

\* the rows main may hand to upload_to_local_db
UploadRows(sc) ==
    IF sc = "fetchCMUdata"
    THEN {[module_name |-> "M1", no |-> 1, test_type |-> t, site_name |-> "CMU"] :
             t \in {"iv", "pedestal"}}
    ELSE {LocalRow(m, DEFAULT_TEMPERATURE, DEFAULT_RH, "None") : m \in Modules}

\* main calls upload_to_local_db(data, local_db_config, db_name)
InitUploadCall ==
    /\ script \in UploadScripts
    /\ args = [module_name |-> "M1"]
    /\ remote = EmptyRemote
    /\ pc = "up_connect"
    /\ module_list = <<>>
    /\ query = NoQuery
    /\ params = <<>>
    /\ rows = <<>>
    /\ conns = {}
    /\ nconn = 0
    /\ cur = 0
    /\ exited = {}
    /\ exc = "none"
    /\ trace = <<>>
    /\ \E l \in LocalStarts :
          /\ "hgcdb_fnal" \in l.databases
          /\ databases = l.databases
          /\ table = l.table
    /\ inserted = <<>>
    /\ users = NoUsers
    /\ existing_columns = <<>>
    /\ col = 0
    /\ stmts = <<>>
    /\ fi = 0
    /\ env = [temperature |-> DEFAULT_TEMPERATURE, relative_humidity |-> DEFAULT_RH,
              addComments |-> ""]
    /\ prompted = <<>>
    /\ data \in SeqsUpTo(UploadRows(script), MaxUploadRows)
    /\ di = 0
    /\ InitNoPlot

NextUploadCall ==
    \/ upload_to_local_db_connect
    \/ verify_and_update_table_schema_fetch
    \/ verify_and_update_table_schema_create
    \/ verify_and_update_table_schema_column
    \/ upload_to_local_db_insert
    \/ upload_to_local_db_close

SpecUploadCall == InitUploadCall /\ [][NextUploadCall]_vars

\* C13: upload_to_local_db of fetchCMUdata uploads the data: its INSERT stores
\* each value in the column of the same name, and after it returns the table
\* has gained exactly one row per element of data, in data order.
C13_EveryRowOfDataInserted ==
    script = "fetchCMUdata" =>
        /\ (pc = "up_insert" /\ di < Len(data)) => InsertOK(script, table)
        /\ pc = "done" => inserted = data

----------------------------------------------------------------------------
(* Creating the database again *)

\* C14: create_local_database creates the database if it does not exist and is
\* safe to repeat: when the database exists the duplicate-database error is
\* absorbed, the function returns normally and the database is left as it
\* was; any other error is printed and re-raised to the caller.
C14_CreateLocalDatabaseRepeatable ==
    [][(script \in UploadScripts /\ pc = "cld_execute") =>
          \/ \* created
             /\ "hgcdb_fnal" \notin databases
             /\ databases' = databases \cup {"hgcdb_fnal"}
             /\ pc' = after_create_local_database
             /\ exc' = "none"
          \/ \* it exists: absorbed
             /\ "hgcdb_fnal" \in databases
             /\ <<databases, table, inserted>>' = <<databases, table, inserted>>
             /\ pc' = after_create_local_database
             /\ exc' = "none"
             /\ trace'[Len(trace')] = Event("print_info", "create_local_database")
          \/ \* another error: printed and re-raised
             /\ <<databases, table, inserted>>' = <<databases, table, inserted>>
             /\ pc' = "crashed"
             /\ exc' \in DatabaseOrFileErrors
             /\ trace'[Len(trace')] = Event("print_error", "create_local_database")
             /\ trace'[Len(trace') - 1] = Event("execute_failed", "create_local_database")]_vars

\* create_local_database has returned normally from the duplicate-database error
C14_Witness ==
    /\ script \in UploadScripts
    /\ pc = after_create_local_database
    /\ trace = <<Event("connect", "create_local_database"),
                 Event("execute_failed", "create_local_database"),
                 Event("print_info", "create_local_database")>>
    /\ "hgcdb_fnal" \in databases
    /\ table.exists

\* a run of createLocalDb has gone through to the end of setup_table
CompletedOnce ==
    \E k \in 1..Len(trace) : trace[k] = Event("close", "setup_table")

\* C15: running createLocalDb's main any number of times against the same
\* server leaves the same state as running it once: database test_db exists,
\* table users exists and holds exactly one row with email alice@example.com.
C15_RunningAgainChangesNothing ==
    [][script = "createLocalDb" =>
          /\ pc' = "done" =>
                /\ "test_db" \in databases'
                /\ users'.exists
                /\ Cardinality({k \in 1..Len(users'.emails) :
                                  users'.emails[k] = "alice@example.com"}) = 1
          /\ CompletedOnce => <<databases, users>>' = <<databases, users>>]_vars

\* two runs of createLocalDb have gone through, on a server that had no test_db
\* before the first
C15_Witness ==
    /\ script = "createLocalDb"
    /\ pc = "done"
    /\ Runs = 2
    /\ trace[2] = Event("execute", "create_database")
    /\ Cardinality({k \in 1..Len(trace) : trace[k] = Event("close", "setup_table")}) = 2
    /\ users.emails = <<"alice@example.com">>

----------------------------------------------------------------------------
(* uploadFNAL_IVdata: one row per file *)

\* the .txt files of the directory, in the order main meets them
TxtFiles == LET txt(f) == f.ext = "txt" IN SelectSeq(listing, txt)

\* those of them that hold at least one measurement line
TxtFilesWithData == LET full(f) == f.content = "data" IN SelectSeq(TxtFiles, full)

\* the INSERT at place k of the trace comes after a schema check on the same
\* connection
VerifiedBefore(k) ==
    \E j \in 1..(k - 1) :
        /\ trace[j] = Event("query", "verify_and_update_table_schema")
        /\ \A m \in (j + 1)..(k - 1) : trace[m].ev # "connect"

\* the run is over and neither the server nor a file failed
RunOverWithoutOutsideFailure ==
    /\ script = "uploadFNAL_IVdata"
    /\ pc \in {"done", "crashed"}
    /\ exc \notin DatabaseOrFileErrors

\* C16: for a directory with k .txt files that each hold a measurement line,
\* uploadFNAL_IVdata's main adds exactly k rows to module_tests, one per file in
\* sorted file-name order, the schema verified before each insert; other files
\* cause no prompt and no insert, a .txt file without measurements no insert.
C16_OneRowPerTextFile ==
    RunOverWithoutOutsideFailure =>
        /\ Len(inserted) = Len(TxtFilesWithData)
        /\ \A k \in 1..Len(inserted) :
              inserted[k].module_name = file_module_name(TxtFilesWithData[k])
        /\ prompted = TxtFiles
        /\ \A k \in 1..Len(trace) :
              trace[k] = Event("execute", "upload_to_local_db") => VerifiedBefore(k)

----------------------------------------------------------------------------
(* plot_iv_data: the colours *)

\* n fetched rows whose arrays match
ColourRows ==
    {[k \in 1..n |-> [module_name |-> "M1", no |-> k, meas_v |-> List(<<1>>),
                      meas_i |-> List(<<1>>)]] : n \in 1..MaxColourRows}

\* main calls plot_iv_data(rows) with many rows
InitColours ==
    /\ script \in PlotScripts
    /\ args \in IF script = "compareIV" THEN {[file1 |-> "", file2 |-> ""]}
                ELSE [file1 : {"", "data"}, file2 : {"", "data"}]
    /\ remote = EmptyRemote
    /\ pc = "plot_loop"
    /\ module_list = <<"M1">>
    /\ query = NoQuery
    /\ params = <<>>
    /\ rows \in ColourRows
    /\ conns = {}
    /\ nconn = 1
    /\ cur = 0
    /\ exited = {1}
    /\ exc = "none"
    /\ trace = <<>>
    /\ existing_columns = <<>>
    /\ col = 0
    /\ stmts = <<>>
    /\ fi = 0
    /\ env = [temperature |-> "", relative_humidity |-> "", addComments |-> ""]
    /\ prompted = <<>>
    /\ data = <<>>
    /\ di = 0
    /\ InitNoLocal
    /\ InitNoPlot

SpecColours == InitColours /\ [][NextPlot]_vars

\* C17: plot_iv_data gives each plotted row a unique colour of the tab20 map,
\* chosen by the row's index i among the n fetched rows: within one call two
\* different plotted rows never get the same colour.
C17_PlottedRowsHaveDistinctColours ==
    script \in PlotScripts =>
        \A a \in 1..Len(curves), b \in 1..Len(curves) :
            (a # b /\ curves[a].row >= 0 /\ curves[b].row >= 0) =>
                curves[a].color # curves[b].color

----------------------------------------------------------------------------
(* One connection at a time *)

\* C18: at every point of a script run at most one database connection is
\* open: a connection opened by one step (create database, remote fetch, local
\* upload) is closed before the next step opens its own, also when the database
\* already exists and across the per-file uploads of uploadFNAL_IVdata.
C18_AtMostOneConnectionOpen == Cardinality(conns) <= 1

====
